---- MODULE Spec2Model ----
(***************************************************************************)
(* Model of the entity suggestion index (data_access/entity_dao.py) and of *)
(* the similarity / distance endpoints (endpoints/dataset_prediction.py).  *)
(*                                                                         *)
(* Texts are sequences of one-letter strings, so that "is a prefix of" can *)
(* be computed.  A Python None is the empty tuple and a present value x is *)
(* the one-element tuple <<x>>.  A JSON/Elasticsearch document is a record *)
(* whose DOMAIN is the set of keys the document has.                       *)
(***************************************************************************)
EXTENDS Integers, Sequences, FiniteSets, TLC

VARIABLES
    es_docs,      \* documents of the "entities" index: records [_type, _id, _source]
    pc,           \* per writer: "idle", or "script" between the two es.update calls
    job,          \* per writer: the entity of the running insert_entity and its DAO's
                  \* dataset_type and dataset_id
    completed,    \* history: the <<entity_ref, dataset_id>> whose insert_entity returned
    overlapped,   \* history: entities whose upserts into two datasets ran interleaved
    lastSuggest,  \* the last suggest_entity call: its inputs, engine options and result
    http,         \* the last endpoint call: request, response and collaborator calls
    algorithm,    \* rows of the sqlite table "algorithm": column name -> None or Some(value)
    lastInsert,   \* the last insert_algorithm call: its dict, the ids before it, its outcome
    es_index,     \* whether the "entities" index exists
    ctor,         \* per writer: where the constructor or generate_index of its EntityDAO stands
    lastGenerate  \* the last generate_index call to end: the index its delete found,
                  \* the error raised

\* the variables of the algorithm store
algoVars == <<algorithm, lastInsert>>

\* the variables of index provisioning
provisionVars == <<es_index, ctor, lastGenerate>>

vars == <<es_docs, pc, job, completed, overlapped, lastSuggest, http, algoVars, provisionVars>>

---------------------------------------------------------------------------
(* Bounds *)

NumWriters == 2
MaxLimit == 2

Writers == 1..NumWriters
IndexDatasets == {1, 2}
\* the dataset_type values EntityDAOs are constructed with
DatasetTypes == {0, 1}
\* the dataset_type of DAOs whose datasets are all of one type
SameType == {0}
\* the entity upserted through DAOs of different dataset_types
MixedEntities == {"Q1"}
Entities == {"Q1", "Q2"}

---------------------------------------------------------------------------
(* Generic helpers *)

None == <<>>
Some(x) == <<x>>

Range(s) == {s[i] : i \in DOMAIN s}

IsPrefix(p, t) == Len(p) <= Len(t) /\ SubSeq(t, 1, Len(p)) = p

\* All orderings of a finite set, as sequences without repetition.
Orderings(S) ==
    {s \in [1..Cardinality(S) -> S] : \A i, j \in 1..Cardinality(S) : s[i] = s[j] => i = j}

---------------------------------------------------------------------------
(* The entities handed to insert_entity: dicts with entity, label,         *)
(* description and alt_label; label maps a language code to a text and     *)
(* alt_label maps a language code to a list of texts (both kept in key     *)
(* order as sequences of [lang, value]).                                   *)

EntityDict(e) ==
    IF e = "Q1"
    THEN [entity |-> "Q1",
          description |-> <<[lang |-> "en", value |-> <<"c">>]>>,
          label |-> <<[lang |-> "en", value |-> <<"p", "a">>]>>,
          alt_label |-> <<[lang |-> "en", value |-> << <<"l", "u">> >>]>>]
    ELSE [entity |-> e,
          description |-> <<>>,
          label |-> <<[lang |-> "en", value |-> <<"p", "o">>],
                      [lang |-> "fr", value |-> <<"p", "a", "u">>]>>,
          alt_label |-> <<>>]

InputTexts == { <<"p">>, <<"p", "a">>, <<"l">>, <<"x">> }

\* dict.values()
values(d) == [i \in DOMAIN d |-> d[i].value]

\* [item for sublist in alt_labels for item in sublist]
RECURSIVE flatten(_)
flatten(lists) ==
    IF lists = <<>> THEN <<>> ELSE Head(lists) \o flatten(Tail(lists))

\* insert_entity: the texts stored in the completion field
suggestions(entity) == values(entity.label) \o flatten(values(entity.alt_label))

\* insert_entity: the document sent with doc_as_upsert (it has no datasets key)
full_doc(entity) ==
    [entity |-> entity.entity,
     description |-> entity.description,
     label |-> entity.label,
     alt_label |-> entity.alt_label,
     label_suggest |-> suggestions(entity)]

\* insert_entity: the document id used for both updates
entity_uuid(entity) == entity.entity

---------------------------------------------------------------------------
(* Elasticsearch, as far as insert_entity and suggest_entity use it.  A    *)
(* document of an index is addressed by its type and its id together: two  *)
(* updates with the same id and different doc_type reach two documents.    *)
(* Each update request is atomic on its document.                          *)

HasDoc(docs, doc_type, id) == \E doc \in docs : doc._type = doc_type /\ doc._id = id
GetDoc(docs, doc_type, id) == CHOOSE doc \in docs : doc._type = doc_type /\ doc._id = id

\* es.update(doc_type=doc_type, body={"doc": doc, "doc_as_upsert": True},
\* id=id): the partial document is merged into the stored one (keys it does
\* not name are kept); when there is no stored document of that type and id
\* it is inserted as given.
es_update_doc(docs, doc_type, id, doc) ==
    IF HasDoc(docs, doc_type, id)
    THEN LET old == GetDoc(docs, doc_type, id)
         IN  (docs \ {old}) \cup
                 {[_type |-> doc_type, _id |-> id, _source |-> doc @@ old._source]}
    ELSE docs \cup {[_type |-> doc_type, _id |-> id, _source |-> doc]}

\* The inline script of insert_entity, run on ctx._source.
painless_script(source, dataset) ==
    IF "datasets" \notin DOMAIN source
    THEN ("datasets" :> <<dataset>>) @@ source
    ELSE IF dataset \notin Range(source["datasets"])
         THEN [source EXCEPT !["datasets"] = Append(@, dataset)]
         ELSE source

\* A plausible slip: the script adds the dataset id without looking for it.
es_update_script_append(docs, doc_type, id, dataset) ==
    LET old == GetDoc(docs, doc_type, id)
        source == old._source
        merged == IF "datasets" \notin DOMAIN source
                  THEN ("datasets" :> <<dataset>>) @@ source
                  ELSE [source EXCEPT !["datasets"] = Append(@, dataset)]
    IN  (docs \ {old}) \cup {[_type |-> doc_type, _id |-> id, _source |-> merged]}

\* es.update(doc_type=doc_type, body={"script": script}, id=id) on a stored
\* document
es_update_script(docs, doc_type, id, dataset) ==
    LET old == GetDoc(docs, doc_type, id)
    IN  (docs \ {old}) \cup
            {[_type |-> doc_type, _id |-> id,
              _source |-> painless_script(old._source, dataset)]}

\* A stored document answers a completion query when one of its
\* label_suggest texts starts with the input; the option's text is that text.
Matches(source, text) ==
    \E i \in DOMAIN source.label_suggest : IsPrefix(text, source.label_suggest[i])

MatchedText(source, text) ==
    LET i == CHOOSE i \in DOMAIN source.label_suggest :
                 /\ IsPrefix(text, source.label_suggest[i])
                 /\ \A j \in 1..(i - 1) : ~IsPrefix(text, source.label_suggest[j])
    IN  source.label_suggest[i]

\* es.suggest(index, body=request): the possible answers.  The request
\* names no doc_type, so documents of every type answer.  The ranking of
\* the options is the engine's, so every ordering of the matching
\* documents is a possible answer.  An index without documents answers
\* without the "entities" key.
es_suggest(docs, text) ==
    IF docs = {}
    THEN { [options |-> <<>>] }
    ELSE LET hits == {doc \in docs : Matches(doc._source, text)}
         IN  { [entities |-> << [options |->
                    [i \in DOMAIN order |->
                        [text |-> MatchedText(order[i]._source, text),
                         _source |-> order[i]._source]]] >>]
               : order \in Orderings(hits) }

---------------------------------------------------------------------------
(* suggest_entity *)

\* str(KeyError(key)) is the repr of the key: the key between quotes.
str_KeyError(key) == <<"'", key, "'">>
\* a string literal of the code
str_literal(s) == <<s>>

\* EntityDTO(entity['_source']).to_dict()
EntityDTO(source) ==
    [entity |-> source.entity, label |-> source.label,
     description |-> source.description, alt_label |-> source.alt_label]

\* The loop over resp['entities'][0]['options'] with both exception
\* handlers: `entities` is the list built so far.
RECURSIVE filter_options(_, _, _)
filter_options(options, dataset_id, entities) ==
    IF options = <<>> THEN entities
    ELSE LET entity == Head(options) IN
         IF "datasets" \notin DOMAIN entity._source
         THEN \* KeyError('datasets') in the inner try
              IF str_KeyError("datasets") # str_literal("datasets")
              THEN \* re-raised out of the loop and caught by the outer handler
                   IF str_KeyError("datasets") = str_literal("entities")
                   THEN <<>>
                   ELSE entities
              ELSE filter_options(Tail(options), dataset_id, entities)
         ELSE IF dataset_id \in Range(entity._source["datasets"])
              THEN filter_options(Tail(options), dataset_id,
                       Append(entities, [entity |-> EntityDTO(entity._source),
                                         text |-> entity.text]))
              ELSE filter_options(Tail(options), dataset_id, entities)

\* A plausible slip: the dataset filter is left out.
suggest_entity_unfiltered(resp, dataset_id) ==
    IF "entities" \notin DOMAIN resp THEN <<>>
    ELSE [i \in DOMAIN resp.entities[1].options |->
            [entity |-> EntityDTO(resp.entities[1].options[i]._source),
             text |-> resp.entities[1].options[i].text]]

\* suggest_entity, given the engine's answer resp
suggest_entity(resp, dataset_id) ==
    IF "entities" \notin DOMAIN resp
    THEN \* KeyError('entities') caught by the outer handler
         \* (with either outcome of its comparison the list is still empty)
         IF str_KeyError("entities") = str_literal("entities") THEN <<>> ELSE <<>>
    ELSE filter_options(resp.entities[1].options, dataset_id, <<>>)

---------------------------------------------------------------------------
(* State machine of the suggestion index.  The DAOs are constructed: the   *)
(* "entities" index exists.  An es.update on a missing index creates it    *)
(* (the engine's default), so each update leaves the index existing.  A    *)
(* writer runs insert_entity on an EntityDAO(t, d): its updates carry the  *)
(* doc_type t and its script the dataset id d.                             *)

NoJob == [entity |-> "", type |-> 0 - 1, dataset |-> 0]
NoSuggest == [called |-> FALSE, dataset |-> 0, text |-> <<>>,
              resp |-> [options |-> <<>>], result |-> <<>>]
NoHttp == [handler |-> "none"]
\* the index as the delete of a generate_index call found it
Found(index) ==
    IF ~index.exists THEN "missing" ELSE IF index.docs = {} THEN "empty" ELSE "filled"

\* where writer w stands in a constructor or a generate_index call; between
\* the delete and the create of generate_index: what the delete found
Stage(at, found) == [at |-> at, found |-> found]

\* a generate_index call that has ended
Generated(found, error) == [called |-> TRUE, found |-> found, error |-> error]
NoGenerate == [called |-> FALSE, found |-> "none", error |-> "none"]
NoInsert == [called |-> FALSE, dict |-> <<>>, before |-> {},
             rowid |-> <<>>, err |-> <<>>, raised |-> "none"]

Init ==
    /\ es_docs = {}
    /\ pc = [w \in Writers |-> "idle"]
    /\ job = [w \in Writers |-> NoJob]
    /\ completed = {}
    /\ overlapped = {}
    /\ lastSuggest = NoSuggest
    /\ http = NoHttp
    /\ algorithm = {}
    /\ lastInsert = NoInsert
    /\ es_index = TRUE
    /\ ctor = [w \in Writers |-> Stage("done", "none")]
    /\ lastGenerate = NoGenerate

\* insert_entity of an EntityDAO(t, d), up to and including the first
\* es.update (document upsert)
InsertDoc(w, e, t, d) ==
    /\ pc[w] = "idle"
    /\ ctor[w].at = "done"
    /\ es_index' = TRUE
    /\ es_docs' = es_update_doc(es_docs, t, entity_uuid(EntityDict(e)), full_doc(EntityDict(e)))
    /\ pc' = [pc EXCEPT ![w] = "script"]
    /\ job' = [job EXCEPT ![w] = [entity |-> e, type |-> t, dataset |-> d]]
    /\ overlapped' = IF \E v \in Writers : /\ pc[v] = "script"
                                           /\ job[v].entity = e
                                           /\ job[v].dataset # d
                     THEN overlapped \cup {e}
                     ELSE overlapped
    /\ UNCHANGED <<completed, lastSuggest, http, algoVars, ctor, lastGenerate>>

\* insert_entity: the second es.update (membership script), then return
InsertScript(w) ==
    /\ pc[w] = "script"
    /\ IF HasDoc(es_docs, job[w].type, entity_uuid(EntityDict(job[w].entity)))
       THEN /\ es_docs' = es_update_script(es_docs, job[w].type,
                              entity_uuid(EntityDict(job[w].entity)),
                              job[w].dataset)
            /\ completed' = completed \cup {<<job[w].entity, job[w].dataset>>}
       ELSE \* the document is gone: NotFoundError leaves insert_entity
            UNCHANGED <<es_docs, completed>>
    /\ es_index' = TRUE
    /\ pc' = [pc EXCEPT ![w] = "idle"]
    /\ job' = [job EXCEPT ![w] = NoJob]
    /\ UNCHANGED <<overlapped, lastSuggest, http, algoVars, ctor, lastGenerate>>

\* A plausible slip: the dataset filter is applied to the index itself.
Suggest_filterInPlace(d, text) ==
    /\ \E resp \in es_suggest(es_docs, text) :
          lastSuggest' = [called |-> TRUE, dataset |-> d, text |-> text,
                          resp |-> resp, result |-> suggest_entity(resp, d)]
    /\ es_docs' = {doc \in es_docs :
                      "datasets" \in DOMAIN doc._source => d \in Range(doc._source["datasets"])}
    /\ UNCHANGED <<pc, job, completed, overlapped, http, algoVars, provisionVars>>

\* suggest_entity of a DAO constructed for dataset d
Suggest(d, text) ==
    /\ \E resp \in es_suggest(es_docs, text) :
          lastSuggest' = [called |-> TRUE, dataset |-> d, text |-> text,
                          resp |-> resp, result |-> suggest_entity(resp, d)]
    /\ UNCHANGED <<es_docs, pc, job, completed, overlapped, http, algoVars, provisionVars>>

Next ==
    \/ \E w \in Writers, e \in Entities, t \in SameType, d \in IndexDatasets :
          InsertDoc(w, e, t, d)
    \/ \E w \in Writers : InsertScript(w)
    \/ \E d \in IndexDatasets, text \in InputTexts : Suggest(d, text)

\* upserts and suggests of EntityDAOs whose datasets have one dataset_type
Spec == Init /\ [][Next]_vars

MixedNext ==
    \/ \E w \in Writers, e \in MixedEntities, t \in DatasetTypes, d \in IndexDatasets :
          InsertDoc(w, e, t, d)
    \/ \E w \in Writers : InsertScript(w)
    \/ \E d \in IndexDatasets, text \in InputTexts : Suggest(d, text)

\* upserts and suggests of EntityDAOs whose datasets have different
\* dataset_types
MixedSpec == Init /\ [][MixedNext]_vars

---------------------------------------------------------------------------
(* Collaborators of the endpoints: the dataset store (DatasetDAO), the     *)
(* dataset object (reference <-> internal id) and the search server (the   *)
(* nearest-neighbour oracle).  Internal ids count from 0.                  *)

QueryDatasets == {1, 2, 3}
\* the datasets the store knows, and those whose search index is built
StoredDatasets == {1, 2}
BuiltDatasets == {1}
\* the entity references of a dataset, by internal id + 1
DatasetEntities == <<"Q1", "Q2", "Q3">>
\* the vectors of the search index, by internal id + 1; the last id has a
\* vector but no entity reference
Vectors == <<0, 4, 9, 15>>

Abs(x) == IF x < 0 THEN 0 - x ELSE x

\* DatasetDAO.get_dataset_by_id: (dto, err)
get_dataset_by_id(dataset_id) ==
    IF dataset_id \in StoredDatasets
    THEN <<Some([id |-> dataset_id]), None>>
    ELSE <<None, Some(<<404, "dataset not found">>)>>

\* DatasetDAO.get_search_index: (search_index, err)
get_search_index(dataset_dto) ==
    IF dataset_dto[1].id \in BuiltDatasets
    THEN <<Some([dataset |-> dataset_dto[1].id]), None>>
    ELSE <<None, Some(<<409, "dataset not ready">>)>>

\* dataset.get_entity_id(ref): the internal id, or None
get_entity_id(ref) ==
    IF \E i \in DOMAIN DatasetEntities : DatasetEntities[i] = ref
    THEN Some((CHOOSE i \in DOMAIN DatasetEntities : DatasetEntities[i] = ref) - 1)
    ELSE None

\* dataset.get_entity(id): the reference, or an empty value for an id
\* without one
get_entity(e_id) ==
    IF (e_id + 1) \in DOMAIN DatasetEntities THEN DatasetEntities[e_id + 1] ELSE ""

\* The n nearest ids to a point, nearest first (ties by id), as (id, distance).
RECURSIVE nearest(_, _, _)
nearest(point, n, ids) ==
    IF n <= 0 \/ ids = {} THEN <<>>
    ELSE LET best == CHOOSE i \in ids : \A j \in ids :
                        \/ Abs(Vectors[i + 1] - point) < Abs(Vectors[j + 1] - point)
                        \/ /\ Abs(Vectors[i + 1] - point) = Abs(Vectors[j + 1] - point)
                           /\ i <= j
         IN  << <<best, Abs(Vectors[best + 1] - point)>> >> \o nearest(point, n - 1, ids \ {best})

VectorIds == {i - 1 : i \in DOMAIN Vectors}

\* Server.similarity_by_id: the entity itself comes first, at distance 0
similarity_by_id(entity_id, n, search_k) == nearest(Vectors[entity_id + 1], n, VectorIds)

\* Server.similarity_by_embedding
similarity_by_embedding(vector, n, search_k) == nearest(vector, n, VectorIds)

\* Server.distance_between_entities, on ids as get_entity_id returned them
distance_between_entities(id_x, id_y) ==
    IF id_x = None \/ id_y = None THEN 0 - 1
    ELSE Abs(Vectors[id_x[1] + 1] - Vectors[id_y[1] + 1])

\* One collaborator call, as the endpoint made it
Call(op, args, ret) == [op |-> op, args |-> args, ret |-> ret]

---------------------------------------------------------------------------
(* PredictSimilarEntitiesResource.on_get *)

DefaultLimit == 10
DefaultSearchK == 0 - 1

\* A plausible slip: the limit is passed on without the added one.
limit_param_asGiven(limit) == IF limit = None THEN DefaultLimit ELSE limit[1]

\* limit = req.get_param_as_int('limit'), defaulted, plus one
limit_param(limit) == (IF limit = None THEN DefaultLimit ELSE limit[1]) + 1

\* search_k = req.get_param_as_int('search_k'), defaulted
search_k_param(search_k) == IF search_k = None THEN DefaultSearchK ELSE search_k[1]

\* A plausible slip: ids without metadata are left out of the response.
similar_entities_of_known(sim) ==
    LET known == SelectSeq(sim, LAMBDA pair : get_entity(pair[1]) # "")
    IN  [i \in DOMAIN known |-> [entity |-> get_entity(known[i][1]), distance |-> known[i][2]]]

\* [{"entity": dataset.get_entity(e_id), "distance": dist} for e_id, dist in sim]
similar_entities_of(sim) ==
    [i \in DOMAIN sim |-> [entity |-> get_entity(sim[i][1]), distance |-> sim[i][2]]]

\* the response dict and the 200 status
similar_response(dataset_dto, entity_used, search_k, similar_entities, calls) ==
    [status |-> 200,
     body |-> [dataset |-> dataset_dto[1],
               similar_entities |-> [entity |-> entity_used,
                                     limit |-> Len(similar_entities),
                                     search_k |-> search_k,
                                     response |-> similar_entities]],
     calls |-> calls]

\* raise falcon.HTTPxxx; the description is a record of what the message
\* is built from
Raise(error, status, description, calls) ==
    [status |-> status, error |-> error, description |-> description, calls |-> calls]

\* on_get from the limit parameter on, with the dataset and its search
\* index at hand
similar_query(req, dataset_dto, calls) ==
    LET limit == limit_param(req.limit)
        search_k == search_k_param(req.search_k)
    IN  IF req.embedding
        THEN LET sim == similarity_by_embedding(req.entity, limit, search_k)
             IN  similar_response(dataset_dto,
                     [value |-> req.entity, type |-> "embedding"],
                     search_k, similar_entities_of(sim),
                     Append(calls, Call("similarity_by_embedding",
                                        <<req.entity, limit, search_k>>, sim)))
        ELSE LET entity_id == get_entity_id(req.entity)
                 calls3 == Append(calls, Call("get_entity_id", <<req.entity>>, entity_id))
             IN  IF entity_id = None
                 THEN Raise("HTTPNotFound", 404, [entity |-> req.entity], calls3)
                 ELSE LET sim == similarity_by_id(entity_id[1], limit, search_k)
                      IN  similar_response(dataset_dto,
                              [value |-> get_entity(entity_id[1]), type |-> "uri"],
                              search_k, similar_entities_of(sim),
                              Append(calls3, Call("similarity_by_id",
                                                  <<entity_id[1], limit, search_k>>, sim)))

\* A plausible slip: the search-index check is left out.
on_get_noIndexCheck(req) ==
    LET dataset == get_dataset_by_id(req.dataset_id)
        calls1 == <<Call("get_dataset_by_id", <<req.dataset_id>>, dataset[1])>>
    IN  IF dataset[1] = None
        THEN Raise("HTTPNotFound", 404, [err |-> dataset[2]], calls1)
        ELSE LET search_index == get_search_index(dataset[1])
                 calls2 == Append(calls1, Call("get_search_index", dataset[1], search_index[1]))
             IN  similar_query(req, dataset[1], calls2)

\* on_get: the dataset, then its search index, then the query
on_get(req) ==
    LET dataset == get_dataset_by_id(req.dataset_id)
        calls1 == <<Call("get_dataset_by_id", <<req.dataset_id>>, dataset[1])>>
    IN  IF dataset[1] = None
        THEN Raise("HTTPNotFound", 404, [err |-> dataset[2]], calls1)
        ELSE LET search_index == get_search_index(dataset[1])
                 calls2 == Append(calls1, Call("get_search_index", dataset[1], search_index[1]))
             IN  IF search_index[1] = None
                 THEN Raise("HTTPConflict", 409, [err |-> search_index[2]], calls2)
                 ELSE similar_query(req, dataset[1], calls2)

---------------------------------------------------------------------------
(* PredictSimilarEntitiesResource.on_post.  The body is undecodable or a   *)
(* JSON object; its "entity" member is an object (a record of members), a  *)
(* string (its letters) or an int; a "type" member is a string or an int.  *)

JsonObject(members) == [type |-> "object", members |-> members]
Str(letters) == [type |-> "str", items |-> letters]

UpperLetters ==
    <<"A", "B", "C", "D", "E", "F", "G", "H", "I", "J", "K", "L", "M",
      "N", "O", "P", "Q", "R", "S", "T", "U", "V", "W", "X", "Y", "Z">>
LowerLetters ==
    <<"a", "b", "c", "d", "e", "f", "g", "h", "i", "j", "k", "l", "m",
      "n", "o", "p", "q", "r", "s", "t", "u", "v", "w", "x", "y", "z">>

\* str.lower() of one character: a capital letter becomes its small letter
LowerChar(c) ==
    IF \E i \in DOMAIN UpperLetters : UpperLetters[i] = c
    THEN LowerLetters[CHOOSE i \in DOMAIN UpperLetters : UpperLetters[i] = c]
    ELSE c

\* str.lower()
py_lower(letters) == [i \in DOMAIN letters |-> LowerChar(letters[i])]

\* sub in text, for strings
py_substring(sub, text) ==
    \E i \in 0..(Len(text) - Len(sub)) : SubSeq(text, i + 1, i + Len(sub)) = sub

\* a JSON list of strings, each string one item
StrList(items) == [type |-> "list", items |-> items]

\* 'type' in v: <<"ok", BOOLEAN>> or the exception raised (a key of an
\* object, a substring of a string, an element of a list; an int is not
\* iterable)
type_in(v) ==
    IF v.type = "object" THEN <<"ok", "type" \in DOMAIN v.members>>
    ELSE IF v.type = "str" THEN <<"ok", py_substring(<<"t", "y", "p", "e">>, v.items)>>
    ELSE IF v.type = "list" THEN <<"ok", "type" \in Range(v.items)>>
    ELSE <<"TypeError">>

\* the "value" member: an entity reference or an embedding vector
RefValue(ref) == [kind |-> "ref", ref |-> ref, vector |-> 0]
VectorValue(vector) == [kind |-> "vector", ref |-> "", vector |-> vector]
json_value(v) == IF v.kind = "ref" THEN v.ref ELSE v.vector

Uri == <<"u", "r", "i">>
Embedding == <<"e", "m", "b", "e", "d", "d", "i", "n", "g">>

NotRecognized ==
    "The type '{}' of the entity {} is not recognized. Please, take a look to the documentation."
MustContain ==
    "Must contain a entity object in json. Please, take a look to the documentation."

\* the 400 answer at the end of on_post; the message is its text and the
\* values str.format puts into it
bad_request(errmsg, args) ==
    [status |-> 400,
     body |-> [status |-> 400, message |-> [text |-> errmsg, format |-> args]],
     calls |-> <<>>]

\* body['entity']['type'].lower(): <<"ok", letters>> or the exception raised
entity_type(type_value) ==
    IF type_value.type = "str" THEN <<"ok", py_lower(type_value.items)>> ELSE <<"AttributeError">>

\* on_post: an exception ends the request as a server error (nothing in
\* on_post catches one)
similar_on_post(query, body, dataset_id) ==
    IF ~body.decodable THEN Raise("JSONDecodeError", 500, [reason |-> "unhandled"], <<>>)
    ELSE IF "entity" \notin DOMAIN body.members
         THEN bad_request(MustContain, <<>>)
    ELSE LET entity == body.members["entity"]
             has_type == type_in(entity)
         IN  IF has_type[1] # "ok" THEN Raise(has_type[1], 500, [reason |-> "unhandled"], <<>>)
             ELSE IF ~has_type[2] THEN bad_request(MustContain, <<>>)
             ELSE IF entity.type # "object" THEN Raise("TypeError", 500, [reason |-> "unhandled"], <<>>)
             ELSE LET type == entity_type(entity.members["type"])
                  IN  IF type[1] # "ok" THEN Raise(type[1], 500, [reason |-> "unhandled"], <<>>)
                      ELSE IF type[2] \in {Uri, Embedding}
                      THEN IF "value" \notin DOMAIN entity.members
                           THEN Raise("KeyError", 500, [reason |-> "unhandled"], <<>>)
                           ELSE on_get([dataset_id |-> dataset_id,
                                        entity |-> json_value(entity.members["value"]),
                                        embedding |-> (type[2] = Embedding),
                                        limit |-> query.limit,
                                        search_k |-> query.search_k])
                      ELSE bad_request(NotRecognized, <<entity.members["type"], entity>>)

---------------------------------------------------------------------------
(* DistanceTriples.on_post.  A decoded JSON value is [type, items]: a list *)
(* or a string with its elements or letters, a dict with its keys, or an   *)
(* int; a request body is undecodable or an object with its members.       *)

JsonList(items) == [type |-> "list", items |-> items]
JsonStr(items) == [type |-> "str", items |-> items]
JsonDict(keys) == [type |-> "dict", items |-> keys]
JsonInt == [type |-> "int", items |-> <<>>]

\* isinstance(v, list)
isinstance_list(v) == v.type = "list"

\* len(v): <<"ok", n>> or the exception raised
py_len(v) == IF v.type = "int" THEN <<"TypeError">> ELSE <<"ok", Len(v.items)>>

\* v[i]: <<"ok", element>> or the exception raised (JSON dict keys are
\* strings, so an integer is never a key)
py_index(v, i) ==
    IF v.type = "int" THEN <<"TypeError">>
    ELSE IF v.type = "dict" THEN <<"KeyError">>
    ELSE IF i + 1 \in DOMAIN v.items THEN <<"ok", v.items[i + 1]>>
    ELSE <<"IndexError">>

\* the exceptions the handler turns into HTTPBadRequest
CaughtErrors == {"JSONDecodeError", "KeyError", "ValueError", "TypeError"}

\* A plausible slip: both references must be unresolved to fail.
unresolved_both(id_x, id_y) == id_x = None /\ id_y = None

\* if id_x is None or id_y is None
unresolved(id_x, id_y) == id_x = None \/ id_y = None

\* the try block: <<"ok", entity_x, entity_y>>, or the exception leaving it
distance_body(body) ==
    IF ~body.decodable THEN <<"JSONDecodeError">>
    ELSE IF "distance" \notin DOMAIN body.members THEN <<"HTTPMissingParam">>
    ELSE LET distance == body.members["distance"]
             bad == IF isinstance_list(distance) THEN <<"ok", FALSE>>
                    ELSE IF py_len(distance)[1] # "ok" THEN py_len(distance)
                    ELSE <<"ok", py_len(distance)[2] # 2>>
         IN  IF bad[1] # "ok" THEN bad
             ELSE IF bad[2] THEN <<"HTTPInvalidParam">>
             ELSE LET entity_x == py_index(distance, 0)
                      entity_y == py_index(distance, 1)
                  IN  IF entity_x[1] # "ok" THEN entity_x
                      ELSE IF entity_y[1] # "ok" THEN entity_y
                      ELSE <<"ok", entity_x[2], entity_y[2]>>

\* A plausible slip: the distance is rounded down to a multiple of ten.
distance_response_rounded(dist, calls) ==
    [status |-> 200, body |-> [distance |-> (dist \div 10) * 10], calls |-> calls]

\* resp.body = json.dumps({"distance": dist}) and the 200 status
distance_response(dist, calls) ==
    [status |-> 200, body |-> [distance |-> dist], calls |-> calls]

\* on_post after the try block
distance_query(dataset_id, entity_x, entity_y) ==
    LET dataset == get_dataset_by_id(dataset_id)
        calls1 == <<Call("get_dataset_by_id", <<dataset_id>>, dataset[1])>>
    IN  IF dataset[1] = None
        THEN Raise("HTTPNotFound", 404, [err |-> dataset[2]], calls1)
        ELSE LET search_index == get_search_index(dataset[1])
                 calls2 == Append(calls1, Call("get_search_index", dataset[1], search_index[1]))
             IN  IF search_index[1] = None
                 THEN Raise("HTTPConflict", 409, [err |-> search_index[2]], calls2)
                 ELSE LET id_x == get_entity_id(entity_x)
                          id_y == get_entity_id(entity_y)
                          calls4 == calls2 \o <<Call("get_entity_id", <<entity_x>>, id_x),
                                                Call("get_entity_id", <<entity_y>>, id_y)>>
                      IN  IF unresolved(id_x, id_y)
                          THEN Raise("HTTPNotFound", 404,
                                     [id_x |-> id_x, entity_x |-> entity_x,
                                      id_y |-> id_y, entity_y |-> entity_y], calls4)
                          ELSE LET dist == distance_between_entities(id_x, id_y)
                               IN  distance_response(dist, Append(calls4,
                                        Call("distance_between_entities", <<id_x, id_y>>, dist)))

\* DistanceTriples.on_post; an exception nobody catches ends the request
\* as a server error
distance_on_post(body, dataset_id) ==
    LET parsed == distance_body(body)
    IN  IF parsed[1] = "ok" THEN distance_query(dataset_id, parsed[2], parsed[3])
        ELSE IF parsed[1] \in CaughtErrors
             THEN Raise("HTTPBadRequest", 400, [cause |-> parsed[1]], <<>>)
        ELSE IF parsed[1] \in {"HTTPMissingParam", "HTTPInvalidParam"}
             THEN Raise(parsed[1], 400, [param |-> "distance"], <<>>)
        ELSE Raise(parsed[1], 500, [reason |-> "unhandled"], <<>>)

---------------------------------------------------------------------------
(* State machine of the endpoints: each request is handled on its own.     *)

References == {"Q1", "Q2", "Q3", "Q9"}
Embeddings == {0, 5}
LimitParams == {None} \cup {Some(n) : n \in 0..MaxLimit}
SearchKParams == {None, Some(5)}

SimilarRequests ==
    [dataset_id : QueryDatasets, entity : References, embedding : {FALSE},
     limit : LimitParams, search_k : SearchKParams]
    \cup
    [dataset_id : QueryDatasets, entity : Embeddings, embedding : {TRUE},
     limit : LimitParams, search_k : SearchKParams]

DistanceValues ==
    {JsonList(<<>>), JsonList(<<"Q1">>), JsonList(<<"Q1", "Q2", "Q3">>),
     JsonStr(<<"Q">>), JsonStr(<<"Q", "1">>), JsonStr(<<"Q", "1", "2">>),
     JsonDict(<<"a">>), JsonDict(<<"a", "b">>), JsonInt}
    \cup {JsonList(<<x, y>>) : x, y \in References}

(* A body that json.loads rejects.  Its members are never read; the field    *)
(* stands for the raw text so that every body is a record of one shape.     *)
Undecodable == [decodable |-> FALSE, members |-> [raw |-> JsonInt]]

DistanceBodies ==
    {Undecodable, [decodable |-> TRUE, members |-> [other |-> JsonInt]]}
    \cup {[decodable |-> TRUE, members |-> [distance |-> v]] : v \in DistanceValues}

EmbeddingTypes ==
    {Str(Embedding), Str(<<"E", "m", "b", "e", "d", "d", "i", "n", "g">>),
     Str(<<"E", "M", "B", "E", "D", "D", "I", "N", "G">>)}

EntityTypes ==
    {Str(Uri), Str(<<"U", "R", "I">>), Str(<<"U", "r", "i">>)} \cup EmbeddingTypes
    \cup {Str(<<"l", "a", "b", "e", "l">>), Str(<<"M", "Z">>), JsonInt}

SimilarBodies ==
    {Undecodable,
     [decodable |-> TRUE, members |-> [other |-> JsonInt]],
     [decodable |-> TRUE, members |-> [entity |-> JsonInt]],
     [decodable |-> TRUE, members |-> [entity |-> Str(<<"Q", "1">>)]],
     [decodable |-> TRUE, members |-> [entity |-> Str(<<"a", "t", "y", "p", "e">>)]],
     [decodable |-> TRUE, members |-> [entity |-> StrList(<<"a">>)]],
     [decodable |-> TRUE, members |-> [entity |-> StrList(<<"type">>)]],
     [decodable |-> TRUE, members |-> [entity |-> JsonObject([value |-> RefValue("Q1")])]],
     [decodable |-> TRUE, members |-> [entity |-> JsonObject([type |-> Str(Uri)])]]}
    \cup {[decodable |-> TRUE, members |-> [entity |-> JsonObject([type |-> t, value |-> RefValue(v)])]]
            : t \in EntityTypes \ EmbeddingTypes, v \in {"Q1", "Q9"}}
    \cup {[decodable |-> TRUE, members |-> [entity |-> JsonObject([type |-> t, value |-> VectorValue(5)])]]
            : t \in EmbeddingTypes}

SimilarQueries == [limit : {None, Some(1)}, search_k : SearchKParams]

SimilarGet(req) ==
    /\ http' = [handler |-> "similar", req |-> req, resp |-> on_get(req)]
    /\ UNCHANGED <<es_docs, pc, job, completed, overlapped, lastSuggest, algoVars, provisionVars>>

SimilarPost(query, body, dataset_id) ==
    /\ http' = [handler |-> "similar_post",
                req |-> [query |-> query, body |-> body, dataset_id |-> dataset_id],
                resp |-> similar_on_post(query, body, dataset_id)]
    /\ UNCHANGED <<es_docs, pc, job, completed, overlapped, lastSuggest, algoVars, provisionVars>>

DistancePost(body, dataset_id) ==
    /\ http' = [handler |-> "distance",
                req |-> [body |-> body, dataset_id |-> dataset_id],
                resp |-> distance_on_post(body, dataset_id)]
    /\ UNCHANGED <<es_docs, pc, job, completed, overlapped, lastSuggest, algoVars, provisionVars>>

QueryNext ==
    \/ \E req \in SimilarRequests : SimilarGet(req)
    \/ \E query \in SimilarQueries, body \in SimilarBodies, dataset_id \in QueryDatasets :
          SimilarPost(query, body, dataset_id)
    \/ \E body \in DistanceBodies, dataset_id \in QueryDatasets : DistancePost(body, dataset_id)

QuerySpec == Init /\ [][QueryNext]_vars

---------------------------------------------------------------------------
(* Properties of the suggestion index *)

DocsOf(docs, e) == {doc \in docs : doc._source.entity = e}
DatasetsOf(doc) ==
    IF "datasets" \in DOMAIN doc._source THEN Range(doc._source["datasets"]) ELSE {}
OptionsOf(resp) ==
    IF "entities" \in DOMAIN resp THEN resp.entities[1].options ELSE <<>>
OptionDatasets(option) ==
    IF "datasets" \in DOMAIN option._source THEN Range(option._source["datasets"]) ELSE {}
ItemOf(option) == [entity |-> EntityDTO(option._source), text |-> option.text]

\* C1: once upsert_entity(e, d1) and upsert_entity(e, d2), d1 # d2, have both
\* completed, in any interleaving of their two steps, the index holds exactly
\* one document for e and its datasets contain both d1 and d2.
C1_NoLostUpdate ==
    \A e \in Entities, d1, d2 \in IndexDatasets :
        (d1 # d2 /\ <<e, d1>> \in completed /\ <<e, d2>> \in completed)
        => /\ Cardinality(DocsOf(es_docs, e)) = 1
           /\ \A doc \in DocsOf(es_docs, e) : {d1, d2} \subseteq DatasetsOf(doc)

\* C2: every item suggest returns comes from a document whose datasets
\* contain the dataset of the query.
C2_SuggestScoped ==
    lastSuggest.called =>
        \A i \in DOMAIN lastSuggest.result :
            \E j \in DOMAIN OptionsOf(lastSuggest.resp) :
                /\ ItemOf(OptionsOf(lastSuggest.resp)[j]) = lastSuggest.result[i]
                /\ lastSuggest.dataset \in OptionDatasets(OptionsOf(lastSuggest.resp)[j])

\* A suggest that returned an item and left out an option of another dataset.
C2_Witness ==
    /\ lastSuggest.called
    /\ lastSuggest.result # <<>>
    /\ \E j \in DOMAIN OptionsOf(lastSuggest.resp) :
          /\ OptionDatasets(OptionsOf(lastSuggest.resp)[j]) # {}
          /\ lastSuggest.dataset \notin OptionDatasets(OptionsOf(lastSuggest.resp)[j])

\* The options whose datasets contain dataset_id, in the engine's order.
RECURSIVE ScopedItems(_, _)
ScopedItems(options, dataset_id) ==
    IF options = <<>> THEN <<>>
    ELSE (IF dataset_id \in OptionDatasets(Head(options))
          THEN <<ItemOf(Head(options))>> ELSE <<>>)
         \o ScopedItems(Tail(options), dataset_id)

\* C6: suggest returns exactly the engine's options whose datasets contain
\* the dataset, in the engine's order; an option without a datasets field
\* is skipped and makes no other option disappear.
C6_SuggestExactFilter ==
    lastSuggest.called =>
        lastSuggest.result = ScopedItems(OptionsOf(lastSuggest.resp), lastSuggest.dataset)

\* C7: a suggest for dataset d returns the empty list as long as no upsert
\* into d has completed, and, once upsert_entity(e, d) has completed, a
\* suggest for d with a prefix of one of e's labels returns an entry for e.
C7_SuggestAfterUpsert ==
    [][ (lastSuggest' # lastSuggest) =>
          LET ls == lastSuggest' IN
          /\ (\A e \in Entities : <<e, ls.dataset>> \notin completed) => ls.result = <<>>
          /\ \A e \in Entities :
                ( /\ <<e, ls.dataset>> \in completed
                  /\ \E i \in DOMAIN suggestions(EntityDict(e)) :
                        IsPrefix(ls.text, suggestions(EntityDict(e))[i]) )
                => \E i \in DOMAIN ls.result : ls.result[i].entity.entity = e
      ]_vars

\* C8: the index holds at most one document per entity_ref; a document is
\* never removed and its datasets only grow.
C8_OneDocGrowOnly ==
    [][ /\ \A e \in Entities : Cardinality(DocsOf(es_docs', e)) <= 1
        /\ \A doc \in es_docs :
              \E doc2 \in es_docs' :
                  /\ doc2._type = doc._type
                  /\ doc2._id = doc._id
                  /\ doc2._source.entity = doc._source.entity
                  /\ DatasetsOf(doc) \subseteq DatasetsOf(doc2)
      ]_vars

DatasetList(source) == IF "datasets" \in DOMAIN source THEN source["datasets"] ELSE <<>>
Occurrences(s, x) == Cardinality({i \in DOMAIN s : s[i] = x})

(* C14: the membership merge is idempotent.  Whenever the merge step of an *)
(* upsert of entity e into dataset d runs, after any number of earlier     *)
(* upserts of e into d, completed or standing between their two steps, the *)
(* document lists d exactly once afterwards, lists the other dataset ids   *)
(* as before, is left as it was when it listed d already, and no other     *)
(* document changes.                                                       *)
C14_MergeIdempotent ==
    [][ \A w \in Writers :
          (pc[w] = "script" /\ pc'[w] = "idle") =>
              LET d == job[w].dataset
                  t == job[w].type
                  id == entity_uuid(EntityDict(job[w].entity))
                  old == GetDoc(es_docs, t, id)
                  new == GetDoc(es_docs', t, id)
                  others(s) == SelectSeq(s, LAMBDA x : x # d)
              IN  /\ HasDoc(es_docs, t, id) /\ HasDoc(es_docs', t, id)
                  /\ Occurrences(DatasetList(new._source), d) = 1
                  /\ others(DatasetList(new._source)) = others(DatasetList(old._source))
                  /\ Occurrences(DatasetList(old._source), d) = 1 => new = old
                  /\ es_docs' \ {new} = es_docs \ {old}
      ]_vars

\* Q1 is in datasets 2 and 1, its upsert into dataset 1 has completed, and
\* every writer stands between the two steps of one more upsert of Q1 into
\* dataset 1: the merges about to run repeat a merge that has run.
C14_Witness ==
    /\ <<"Q1", 1>> \in completed
    /\ <<"Q1", 2>> \in completed
    /\ \A w \in Writers :
          pc[w] = "script" /\ job[w] = [entity |-> "Q1", type |-> 0, dataset |-> 1]
    /\ \E doc \in DocsOf(es_docs, "Q1") :
          /\ Occurrences(DatasetList(doc._source), 1) = 1
          /\ Occurrences(DatasetList(doc._source), 2) = 1

(* C18: suggest is side-effect-free.  A step in which only a suggest_entity *)
(* call ran, whatever it returned, leaves every document of the index,     *)
(* each document's datasets included, as it was.                            *)
C18_SuggestReadOnly ==
    [][ (lastSuggest' # lastSuggest \/ (pc' = pc /\ job' = job)) => es_docs' = es_docs ]_vars

\* A suggest ran on an index holding both entities, one of them in two
\* datasets and the other not in the dataset asked for, and returned an item.
C18_Witness ==
    /\ lastSuggest.called
    /\ lastSuggest.result # <<>>
    /\ Cardinality(es_docs) = 2
    /\ \E doc \in es_docs : Cardinality(DatasetsOf(doc)) = 2
    /\ \E doc \in es_docs : DatasetsOf(doc) # {} /\ lastSuggest.dataset \notin DatasetsOf(doc)

---------------------------------------------------------------------------
(* Properties of the endpoints *)

Resolvable(ref) == ref \in Range(DatasetEntities)
ReadyDataset(dataset_id) == dataset_id \in StoredDatasets /\ dataset_id \in BuiltDatasets
OracleCalls(calls) ==
    {i \in DOMAIN calls : calls[i].op \in {"similarity_by_id", "similarity_by_embedding"}}
DistanceCalls(calls) ==
    {i \in DOMAIN calls : calls[i].op = "distance_between_entities"}
HasDistanceValue(req) ==
    req.body.decodable /\ "distance" \in DOMAIN req.body.members
IsPairList(v) == v.type = "list" /\ Len(v.items) = 2

\* C3: a by-reference similarity query with limit = N returns at most N
\* items and never the queried entity itself.
C3_LimitAndNoSelf ==
    (http.handler = "similar" /\ ~http.req.embedding /\ http.resp.status = 200) =>
        LET N == IF http.req.limit = None THEN DefaultLimit ELSE http.req.limit[1]
            items == http.resp.body.similar_entities.response
        IN  /\ Len(items) <= N
            /\ \A i \in DOMAIN items : items[i].entity # http.req.entity

\* C4: in a distance query on an existing, index-ready dataset, a reference
\* that does not resolve makes the request fail with not-found, the failure
\* names each unresolved reference, and the oracle's distance is not called.
C4_DistanceUnresolved ==
    ( /\ http.handler = "distance"
      /\ ReadyDataset(http.req.dataset_id)
      /\ HasDistanceValue(http.req)
      /\ IsPairList(http.req.body.members["distance"])
      /\ \E i \in 1..2 : ~Resolvable(http.req.body.members["distance"].items[i]) )
    => LET x == http.req.body.members["distance"].items[1]
           y == http.req.body.members["distance"].items[2]
           r == http.resp
       IN  /\ r.status = 404
           /\ r.error = "HTTPNotFound"
           /\ r.description.entity_x = x
           /\ r.description.entity_y = y
           /\ (r.description.id_x = None) <=> ~Resolvable(x)
           /\ (r.description.id_y = None) <=> ~Resolvable(y)
           /\ DistanceCalls(r.calls) = {}

\* A distance request whose first reference resolves and whose second does
\* not, answered with not-found.
C4_Witness ==
    /\ http.handler = "distance"
    /\ ReadyDataset(http.req.dataset_id)
    /\ HasDistanceValue(http.req)
    /\ http.req.body.members["distance"] = JsonList(<<"Q1", "Q9">>)
    /\ http.resp.status = 404

\* C5: a distance value that is not a list of exactly two elements fails
\* with a bad request before the dataset is looked up; only a list of
\* exactly two elements proceeds.
C5_DistanceArity ==
    (http.handler = "distance" /\ HasDistanceValue(http.req)) =>
        IF IsPairList(http.req.body.members["distance"])
        THEN http.resp.calls # <<>>
        ELSE (http.resp.status = 400 /\ http.resp.calls = <<>>)

\* C9: the oracle is called only after the dataset was found, its search
\* index was found built and (by reference) the reference resolved, in
\* this order; each of these failures ends the request without an oracle
\* call and without a success response.
C9_SimilarOrder ==
    http.handler = "similar" =>
        LET req == http.req
            r == http.resp
            calls == http.resp.calls
        IN  /\ req.dataset_id \notin StoredDatasets
                => r.status = 404 /\ r.error = "HTTPNotFound" /\ OracleCalls(calls) = {}
            /\ (req.dataset_id \in StoredDatasets /\ req.dataset_id \notin BuiltDatasets)
                => r.status = 409 /\ r.error = "HTTPConflict" /\ OracleCalls(calls) = {}
            /\ (ReadyDataset(req.dataset_id) /\ ~req.embedding /\ ~Resolvable(req.entity))
                => r.status = 404 /\ r.error = "HTTPNotFound" /\ OracleCalls(calls) = {}
            /\ OracleCalls(calls) # {}
                => /\ calls[1].op = "get_dataset_by_id" /\ calls[1].ret # None
                   /\ calls[2].op = "get_search_index" /\ calls[2].ret # None
                   /\ IF req.embedding
                      THEN OracleCalls(calls) = {3}
                      ELSE /\ calls[3].op = "get_entity_id" /\ calls[3].ret # None
                           /\ OracleCalls(calls) = {4}
            /\ (r.status = 200) <=> (OracleCalls(calls) # {})

\* A by-reference request on a dataset whose search index is not built,
\* answered with the conflict failure after two collaborator calls.
C9_Witness ==
    /\ http.handler = "similar"
    /\ ~http.req.embedding
    /\ http.resp.status = 409
    /\ Len(http.resp.calls) = 2

\* C10: a successful similarity response has one item per (id, distance)
\* pair of the oracle, in its order and with its distance, also for an id
\* without metadata; the echoed count is the number of items and the mode
\* is "uri" by reference and "embedding" by embedding.
C10_ResponseItems ==
    (http.handler = "similar" /\ http.resp.status = 200) =>
        LET se == http.resp.body.similar_entities
            ret == http.resp.calls[Len(http.resp.calls)].ret
        IN  /\ Len(se.response) = Len(ret)
            /\ \A i \in DOMAIN ret :
                  /\ se.response[i].distance = ret[i][2]
                  /\ se.response[i].entity =
                        (IF ret[i][1] + 1 \in DOMAIN DatasetEntities
                         THEN DatasetEntities[ret[i][1] + 1] ELSE "")
            /\ se.limit = Len(se.response)
            /\ se.entity.type = (IF http.req.embedding THEN "embedding" ELSE "uri")

\* A successful response with an item whose metadata is empty.
C10_Witness ==
    /\ http.handler = "similar"
    /\ http.resp.status = 200
    /\ \E i \in DOMAIN http.resp.body.similar_entities.response :
          http.resp.body.similar_entities.response[i].entity = ""


IdOf(ref) == (CHOOSE i \in DOMAIN DatasetEntities : DatasetEntities[i] = ref) - 1

\* C11: for two references that both resolve, the distance endpoint returns
\* exactly the scalar the oracle gives for (id(a), id(b)); with a symmetric
\* oracle the distance of (a, b) equals the distance of (b, a).
C11_DistancePassThrough ==
    ( /\ http.handler = "distance"
      /\ ReadyDataset(http.req.dataset_id)
      /\ HasDistanceValue(http.req)
      /\ IsPairList(http.req.body.members["distance"])
      /\ \A i \in 1..2 : Resolvable(http.req.body.members["distance"].items[i]) )
    => LET a == http.req.body.members["distance"].items[1]
           b == http.req.body.members["distance"].items[2]
           r == http.resp
           swapped == distance_on_post(
                          [decodable |-> TRUE, members |-> [distance |-> JsonList(<<b, a>>)]],
                          http.req.dataset_id)
       IN  /\ r.status = 200
           /\ DistanceCalls(r.calls) = {Len(r.calls)}
           /\ r.calls[Len(r.calls)].args = <<Some(IdOf(a)), Some(IdOf(b))>>
           /\ r.body.distance = r.calls[Len(r.calls)].ret
           /\ r.body.distance = Abs(Vectors[IdOf(a) + 1] - Vectors[IdOf(b) + 1])
           /\ swapped.status = 200
           /\ swapped.body.distance = r.body.distance

\* The distance of two different resolvable references was returned.
C11_Witness ==
    /\ http.handler = "distance"
    /\ ReadyDataset(http.req.dataset_id)
    /\ HasDistanceValue(http.req)
    /\ http.req.body.members["distance"] = JsonList(<<"Q3", "Q2">>)
    /\ http.resp.status = 200
    /\ http.resp.body.distance = 5

\* C13: on both paths the oracle is asked for the caller's limit plus one
\* neighbours, the limit being 10 when none is given, with the caller's
\* search_k, being -1 when none is given.
C13_LimitPlusOne ==
    (http.handler = "similar" /\ OracleCalls(http.resp.calls) # {}) =>
        LET call == http.resp.calls[Len(http.resp.calls)]
            limit == IF http.req.limit = None THEN 10 ELSE http.req.limit[1]
            search_k == IF http.req.search_k = None THEN 0 - 1 ELSE http.req.search_k[1]
        IN  /\ call.op = (IF http.req.embedding THEN "similarity_by_embedding"
                                                ELSE "similarity_by_id")
            /\ call.args[2] = limit + 1
            /\ call.args[3] = search_k
            /\ http.resp.body.similar_entities.search_k = search_k

\* A by-embedding request without limit and search_k reached the oracle.
C13_Witness ==
    /\ http.handler = "similar"
    /\ http.req.embedding
    /\ http.req.limit = None
    /\ http.req.search_k = None
    /\ OracleCalls(http.resp.calls) # {}
    /\ http.resp.calls[Len(http.resp.calls)].args[2] = 11


\* C15: the similarity POST dispatches on the body's entity type, compared
\* case-insensitively: "uri" runs the by-reference query and "embedding"
\* the by-embedding query, through on_get; a body without an entity object
\* or entity type, or with any other type, is answered with 400 without a
\* dataset lookup or an oracle call.
C15_PostDispatch ==
    (http.handler = "similar_post" /\ http.req.body.decodable) =>
        LET members == http.req.body.members
            typed == /\ "entity" \in DOMAIN members
                     /\ members["entity"].type = "object"
                     /\ "type" \in DOMAIN members["entity"].members
                     /\ members["entity"].members["type"].type = "str"
            kind == py_lower(members["entity"].members["type"].items)
            query(embedding) ==
                on_get([dataset_id |-> http.req.dataset_id,
                        entity |-> json_value(members["entity"].members["value"]),
                        embedding |-> embedding,
                        limit |-> http.req.query.limit,
                        search_k |-> http.req.query.search_k])
        IN  IF typed /\ kind = Uri
            THEN ("value" \in DOMAIN members["entity"].members => http.resp = query(FALSE))
            ELSE IF typed /\ kind = Embedding
            THEN ("value" \in DOMAIN members["entity"].members => http.resp = query(TRUE))
            ELSE (http.resp.status = 400 /\ http.resp.calls = <<>>)

---------------------------------------------------------------------------
(* AlgorithmDAO.insert_algorithm.  A dict is the sequence of its            *)
(* <<key, value>> items in iteration order; a text is the sequence of its   *)
(* tokens; a row maps each column to None (NULL) or Some(value).            *)

MaxRows == 2

AlgorithmColumns == {"embedding_size", "margin"}
TableColumns == AlgorithmColumns \cup {"id"}
AlgorithmValues == {1, 2}

RECURSIVE comma_separated(_)
comma_separated(items) ==
    IF Len(items) = 0 THEN <<>>
    ELSE IF Len(items) = 1 THEN <<items[1]>>
    ELSE <<items[1], ",">> \o comma_separated(Tail(items))

\* repr of a tuple, as str.format renders it: (), ('a',), ('a', 'b')
tuple_repr(items) ==
    IF Len(items) = 1 THEN <<"(", items[1], ",", ")">>
    ELSE <<"(">> \o comma_separated(items) \o <<")">>

\* "?," once per kept key, then the last character cut off
values_protect(n) ==
    LET marks == [i \in 1..(2 * n) |-> IF i % 2 = 1 THEN "?" ELSE ","]
    IN  IF n = 0 THEN <<>> ELSE SubSeq(marks, 1, 2 * n - 1)

\* "INSERT INTO algorithm {0} VALUES ({1})".format(tuple(param_tuple), values_protect)
query_format(param_tuple) ==
    <<"INSERT", "INTO", "algorithm">> \o tuple_repr(param_tuple)
        \o <<"VALUES", "(">> \o values_protect(Len(param_tuple)) \o <<")">>

Punctuation == {"(", ")", ","}

\* sqlite's grammar of a parenthesised list: ( item , item ... ), at least
\* one item and no trailing comma
IsSqlList(text) ==
    /\ Len(text) >= 3
    /\ Len(text) % 2 = 1
    /\ text[1] = "("
    /\ text[Len(text)] = ")"
    /\ \A i \in 2..(Len(text) - 1) :
          IF i % 2 = 0 THEN text[i] \notin Punctuation ELSE text[i] = ","

sql_list_items(text) == [k \in 1..((Len(text) - 1) \div 2) |-> text[2 * k]]

\* sqlite parsing the INSERT statement: Some(columns, placeholders), or None
\* on a syntax error
parse_insert(query) ==
    LET at == CHOOSE i \in DOMAIN query : query[i] = "VALUES"
        columns == SubSeq(query, 4, at - 1)
        places == SubSeq(query, at + 1, Len(query))
    IN  IF IsSqlList(columns) /\ IsSqlList(places)
        THEN Some([columns |-> sql_list_items(columns), places |-> sql_list_items(places)])
        ELSE None

IdsOf(table) == {row["id"][1] : row \in table}

MaxId(table) == IF table = {} THEN 0 ELSE CHOOSE n \in IdsOf(table) : \A k \in IdsOf(table) : k <= n

\* MainDAO.execute_insertion on the table: the error raised ("none" when the
\* statement ran), the cursor's lastrowid and the table afterwards
execute_insertion(table, query, values_tuple) ==
    LET parsed == parse_insert(query)
        failed(error) == [error |-> error, lastrowid |-> 0, table |-> table]
    IN  IF parsed = None THEN failed("OperationalError")
        ELSE LET columns == parsed[1].columns
                 given(c) == \E i \in DOMAIN columns : columns[i] = c
                 value(c) == values_tuple[CHOOSE i \in DOMAIN columns : columns[i] = c]
                 rowid == IF given("id") THEN value("id") ELSE MaxId(table) + 1
                 row == [c \in TableColumns |->
                            IF c = "id" THEN Some(rowid)
                            ELSE IF given(c) THEN Some(value(c)) ELSE None]
             IN  IF \/ Range(columns) \ TableColumns # {}
                    \/ Len(parsed[1].places) # Len(columns)
                 THEN failed("OperationalError")
                 ELSE IF rowid \in IdsOf(table) THEN failed("IntegrityError")
                 ELSE [error |-> "none", lastrowid |-> rowid, table |-> table \cup {row}]

\* insert_algorithm: the returned (rowid, err), the exception that escaped
\* ("none" when it returned) and the table afterwards
insert_algorithm(table, algorithm_dict) ==
    LET kept == SelectSeq(algorithm_dict, LAMBDA item : item[1] # "id")
        param_tuple == [i \in DOMAIN kept |-> kept[i][1]]
        values_tuple == [i \in DOMAIN kept |-> kept[i][2]]
        result == execute_insertion(table, query_format(param_tuple), values_tuple)
    IN  IF result.error = "OperationalError"
        THEN [rowid |-> None, err |-> Some(400), raised |-> "none", table |-> table]
        ELSE IF result.error # "none"
        THEN [rowid |-> None, err |-> None, raised |-> result.error, table |-> table]
        ELSE [rowid |-> Some(result.lastrowid), err |-> None, raised |-> "none",
              table |-> result.table]

AlgorithmKeys == TableColumns

\* the dicts a caller passes: any keys of the table in any order
AlgorithmDicts ==
    UNION {UNION {{[i \in DOMAIN keys |-> <<keys[i], vals[i]>>]
                      : vals \in [DOMAIN keys -> AlgorithmValues]}
                  : keys \in Orderings(K)}
           : K \in SUBSET AlgorithmKeys}

InsertAlgorithm(algorithm_dict) ==
    /\ Cardinality(algorithm) < MaxRows
    /\ LET r == insert_algorithm(algorithm, algorithm_dict)
       IN  /\ algorithm' = r.table
           /\ lastInsert' = [called |-> TRUE, dict |-> algorithm_dict,
                             before |-> IdsOf(algorithm),
                             rowid |-> r.rowid, err |-> r.err, raised |-> r.raised]
    /\ UNCHANGED <<es_docs, pc, job, completed, overlapped, lastSuggest, http, provisionVars>>

AlgoNext == \E algorithm_dict \in AlgorithmDicts : InsertAlgorithm(algorithm_dict)

AlgoSpec == Init /\ [][AlgoNext]_vars

\* the value a dict holds under a key, None when the key is missing
DictGet(dict, key) ==
    IF \E i \in DOMAIN dict : dict[i][1] = key
    THEN Some(dict[CHOOSE i \in DOMAIN dict : dict[i][1] = key][2])
    ELSE None

(* C12: insert_algorithm never uses a caller-supplied id.  A dict whose    *)
(* "id" is the id of an existing algorithm is inserted without a UNIQUE    *)
(* violation: a new row holds the remaining fields, and the call returns   *)
(* (rowid, None) with rowid the id of that row, an id no row had before.   *)
C12_InsertIgnoresId ==
    (/\ lastInsert.called
     /\ DictGet(lastInsert.dict, "id") # None
     /\ DictGet(lastInsert.dict, "id")[1] \in lastInsert.before) =>
        /\ lastInsert.raised = "none"
        /\ lastInsert.err = None
        /\ lastInsert.rowid # None
        /\ lastInsert.rowid[1] \notin lastInsert.before
        /\ \E row \in algorithm :
              /\ row["id"] = lastInsert.rowid
              /\ \A c \in AlgorithmColumns : row[c] = DictGet(lastInsert.dict, c)

---------------------------------------------------------------------------
(* Index provisioning: EntityDAO.__init__ and generate_index.  The index   *)
(* is the record [exists, docs]; a call gives the error raised ("none"     *)
(* when it returned) and the index afterwards.                             *)

EsIndex(exists, docs) == [exists |-> exists, docs |-> docs]

\* es.indices.exists(index)
es_indices_exists(index) == index.exists

\* es.indices.delete(index): the index goes with its documents
es_indices_delete(index) ==
    IF index.exists
    THEN [error |-> "none", index |-> EsIndex(FALSE, {})]
    ELSE [error |-> "NotFoundError", index |-> index]

\* es.indices.create(index, body): a new index holds no documents
es_indices_create(index) ==
    IF index.exists
    THEN [error |-> "RequestError", index |-> index]
    ELSE [error |-> "none", index |-> EsIndex(TRUE, {})]

\* generate_index, lines 111-114: the delete with its NotFoundError passed over
try_delete(index) ==
    LET deleted == es_indices_delete(index)
    IN  IF deleted.error = "NotFoundError" THEN [error |-> "none", index |-> deleted.index]
        ELSE deleted

\* generate_index run with no other request in between: delete, then create
generate_index(index) ==
    LET deleted == try_delete(index)
    IN  IF deleted.error # "none" THEN deleted ELSE es_indices_create(deleted.index)

\* a fresh engine: no index, no EntityDAO constructed yet
ProvisionInit ==
    /\ es_docs = {}
    /\ pc = [w \in Writers |-> "idle"]
    /\ job = [w \in Writers |-> NoJob]
    /\ completed = {}
    /\ overlapped = {}
    /\ lastSuggest = NoSuggest
    /\ http = NoHttp
    /\ algorithm = {}
    /\ lastInsert = NoInsert
    /\ es_index = FALSE
    /\ ctor = [w \in Writers |-> Stage("new", "none")]
    /\ lastGenerate = NoGenerate

\* __init__ of writer w's next EntityDAO: es.indices.exists
CtorExists(w) ==
    /\ pc[w] = "idle"
    /\ ctor[w].at \in {"new", "done"}
    /\ ctor' = [ctor EXCEPT ![w] =
                   IF es_indices_exists(EsIndex(es_index, es_docs))
                   THEN Stage("done", "none")
                   ELSE Stage("delete", "none")]
    /\ UNCHANGED <<es_docs, pc, job, completed, overlapped, lastSuggest, http, algoVars,
                   es_index, lastGenerate>>

\* generate_index called by the constructor: es.indices.delete, its
\* NotFoundError passed over; another error leaves the constructor
CtorDelete(w) ==
    /\ ctor[w].at = "delete"
    /\ LET index == EsIndex(es_index, es_docs)
           r == try_delete(index)
       IN  /\ es_index' = r.index.exists
           /\ es_docs' = r.index.docs
           /\ ctor' = [ctor EXCEPT ![w] =
                          IF r.error = "none" THEN Stage("create", Found(index))
                          ELSE Stage("new", "none")]
           /\ lastGenerate' = IF r.error = "none" THEN lastGenerate
                              ELSE Generated(Found(index), r.error)
    /\ UNCHANGED <<pc, job, completed, overlapped, lastSuggest, http, algoVars>>

\* generate_index called by the constructor: es.indices.create; its error
\* leaves the constructor
CtorCreate(w) ==
    /\ ctor[w].at = "create"
    /\ LET r == es_indices_create(EsIndex(es_index, es_docs))
       IN  /\ es_index' = r.index.exists
           /\ es_docs' = r.index.docs
           /\ ctor' = [ctor EXCEPT ![w] =
                          IF r.error = "none" THEN Stage("done", "none")
                          ELSE Stage("new", "none")]
           /\ lastGenerate' = Generated(ctor[w].found, r.error)
    /\ UNCHANGED <<pc, job, completed, overlapped, lastSuggest, http, algoVars>>

\* dao.generate_index(dao.index) by the constructed DAO of writer w:
\* es.indices.delete, its NotFoundError passed over
GenerateDelete(w) ==
    /\ pc[w] = "idle"
    /\ ctor[w].at = "done"
    /\ LET index == EsIndex(es_index, es_docs)
           r == try_delete(index)
       IN  /\ es_index' = r.index.exists
           /\ es_docs' = r.index.docs
           /\ ctor' = [ctor EXCEPT ![w] =
                          IF r.error = "none" THEN Stage("generate", Found(index))
                          ELSE Stage("done", "none")]
           /\ lastGenerate' = IF r.error = "none" THEN lastGenerate
                              ELSE Generated(Found(index), r.error)
    /\ UNCHANGED <<pc, job, completed, overlapped, lastSuggest, http, algoVars>>

\* dao.generate_index(dao.index): es.indices.create, then return
GenerateCreate(w) ==
    /\ ctor[w].at = "generate"
    /\ LET r == es_indices_create(EsIndex(es_index, es_docs))
       IN  /\ es_index' = r.index.exists
           /\ es_docs' = r.index.docs
           /\ lastGenerate' = Generated(ctor[w].found, r.error)
    /\ ctor' = [ctor EXCEPT ![w] = Stage("done", "none")]
    /\ UNCHANGED <<pc, job, completed, overlapped, lastSuggest, http, algoVars>>

\* the entity whose upserts fill the index around the generate_index calls
SchemaEntities == {"Q1"}

SchemaNext ==
    \/ \E w \in Writers : CtorExists(w)
    \/ \E w \in Writers : CtorDelete(w)
    \/ \E w \in Writers : CtorCreate(w)
    \/ \E w \in Writers : GenerateDelete(w)
    \/ \E w \in Writers : GenerateCreate(w)
    \/ \E w \in Writers, e \in SchemaEntities, t \in DatasetTypes, d \in IndexDatasets :
          InsertDoc(w, e, t, d)
    \/ \E w \in Writers : InsertScript(w)

\* constructors, generate_index calls and upserts of the writers, all
\* interleaved request by request
SchemaSpec == ProvisionInit /\ [][SchemaNext]_vars

ProvisionNext ==
    \/ \E w \in Writers : CtorExists(w)
    \/ \E w \in Writers : CtorDelete(w)
    \/ \E w \in Writers : CtorCreate(w)
    \/ \E w \in Writers, e \in Entities, t \in DatasetTypes, d \in IndexDatasets :
          InsertDoc(w, e, t, d)
    \/ \E w \in Writers : InsertScript(w)

\* constructors of some writers interleaved, request by request, with the
\* upserts of the others
ProvisionSpec == ProvisionInit /\ [][ProvisionNext]_vars

(* C16: index provisioning never destroys data.  In every interleaving of  *)
(* EntityDAO constructions with the upserts of other DAO instances, the    *)
(* document of each completed upsert is in the index, with the dataset it  *)
(* was upserted into.                                                      *)
C16_ProvisioningKeepsData ==
    \A pair \in completed :
        \E doc \in DocsOf(es_docs, pair[1]) : pair[2] \in DatasetsOf(doc)

(* C17: generate_index completes without error whether or not the index   *)
(* exists (the failed delete of a missing index is passed over); when it   *)
(* has returned the index exists and holds no documents, and calling it    *)
(* once more gives the same outcome and index.                             *)
C17_GenerateIndexClean ==
    [][ \A w \in Writers :
          (ctor[w].at \in {"create", "generate"} /\ ctor'[w].at # ctor[w].at) =>
              LET index == EsIndex(es_index', es_docs')
              IN  /\ lastGenerate'.error = "none"
                  /\ es_index'
                  /\ es_docs' = {}
                  /\ generate_index(index) = [error |-> "none", index |-> index]
      ]_vars

====
